---- MODULE Spec2Model ----
(***************************************************************************)
(* The trivia API of backend/flaskr/__init__.py as a state machine.        *)
(*                                                                         *)
(* The store holds Question rows <<id, question, answer, category,         *)
(* difficulty>> and Category rows <<id, type>>.  Every endpoint is one     *)
(* action; `request` and `response` hold the last request served and the   *)
(* answer it got, `old_store` the store as it was when that request        *)
(* arrived.  Question texts are sequences of one-letter strings so that    *)
(* the case-insensitive substring search can be computed.                  *)
(***************************************************************************)
EXTENDS Integers, Sequences, FiniteSets, TLC

VARIABLES
    store,              \* the Question table: a set of rows
    categories,         \* the Category table: a set of rows
    next_id,            \* the next value of the Question id sequence
    request,            \* the last request served
    response,           \* the response it got
    old_store,          \* the Question table when that request arrived
    deleted,            \* ids removed by successful delete requests
    pc,                 \* get_questions: "idle", or "read" between its two store reads
    selection,          \* get_questions: the rows read by its first query
    current_questions,  \* get_questions: the page cut from them
    session             \* a quiz client: its category, previous_questions, progress

vars == <<store, categories, next_id, request, response, old_store, deleted,
          pc, selection, current_questions, session>>

-----------------------------------------------------------------------------
(* Bounds of the exploration *)

SeedTotal == 10     \* questions in the seeded table
MaxCreated == 2     \* successful creates explored
MaxDeleted == 1     \* successful deletes explored
MaxPage == 3        \* largest page parameter
MaxNegPage == 2     \* page parameters go down to -MaxNegPage
MaxTotal == 23      \* longest table the pagination runs read
QuizSeed == 4       \* questions in the table of the quiz runs

-----------------------------------------------------------------------------
(* Values *)

QUESTIONS_PER_PAGE == 10

Null == [null |-> TRUE]

Min(a, b) == IF a < b THEN a ELSE b
Max(a, b) == IF a > b THEN a ELSE b
Range(s) == {s[i] : i \in DOMAIN s}

\* Row accessors of the Question table
QId(r) == r[1]
QText(r) == r[2]
QAnswer(r) == r[3]
QCategory(r) == r[4]
QDifficulty(r) == r[5]

Ids(st) == {QId(r) : r \in st}

\* Question.format(): the serialized form of a row, with all five fields
format(r) ==
    [id |-> QId(r), question |-> QText(r), answer |-> QAnswer(r),
     category |-> QCategory(r), difficulty |-> QDifficulty(r)]

\* The seeded tables
SeedRow(i) ==
    <<i,
      IF i % 3 = 0 THEN <<"T", "i", "t">> ELSE IF i % 3 = 1 THEN <<"w", "h", "o">> ELSE <<"a", "t">>,
      IF i % 2 = 0 THEN "A1" ELSE "A2",
      (i % 2) + 1,
      (i % 5) + 1>>

Seed(lo, hi) == {SeedRow(i) : i \in lo..hi}

SeedCategories == {<<1, "Science">>, <<2, "Art">>, <<3, "Sports">>}

-----------------------------------------------------------------------------
(* Store queries *)

\* Question.query.order_by(Question.id).all()
RECURSIVE OrderById(_)
OrderById(st) ==
    IF st = {} THEN <<>>
    ELSE LET first == CHOOSE r \in st : \A o \in st : QId(r) <= QId(o)
         IN  <<first>> \o OrderById(st \ {first})

\* Question.query.all() and the filtered queries: rows come back in key order
All(st) == OrderById(st)

\* Category.query.order_by(Category.type).all()
RECURSIVE OrderByType(_)
OrderByType(cs) ==
    IF cs = {} THEN <<>>
    ELSE LET first == CHOOSE c \in cs : \A o \in cs :
                          \/ c[2] = o[2]
                          \/ <<c[2], o[2]>> \in {<<"Art", "Science">>, <<"Art", "Sports">>,
                                                 <<"Science", "Sports">>}
         IN  <<first>> \o OrderByType(cs \ {first})

-----------------------------------------------------------------------------
(* Pagination *)

\* request.args.get('page', 1, type=int): 1 when the parameter is absent or
\* does not parse as an integer
PageArg(args) ==
    IF "page" \notin DOMAIN args THEN 1
    ELSE IF "int" \in DOMAIN args.page THEN args.page.int
    ELSE 1

\* Python's s[start:end] on a list: negative indexes count from the end and
\* both ends are clamped to the list
PyIndex(n, i) == IF i < 0 THEN Max(n + i, 0) ELSE Min(i, n)

PySlice(s, start, end) ==
    LET lo == PyIndex(Len(s), start)
        hi == PyIndex(Len(s), end)
    IN  IF lo >= hi THEN <<>> ELSE SubSeq(s, lo + 1, hi)

\* The helper with its window one item too long
paginate_questions_wide(args, sel) ==
    LET page == PageArg(args)
        start == (page - 1) * QUESTIONS_PER_PAGE
        end == start + QUESTIONS_PER_PAGE + 1
        questions == [i \in DOMAIN sel |-> format(sel[i])]
    IN  PySlice(questions, start, end)

\* paginate_questions(request, selection)
paginate_questions(args, sel) ==
    LET page == PageArg(args)
        start == (page - 1) * QUESTIONS_PER_PAGE
        end == start + QUESTIONS_PER_PAGE
        questions == [i \in DOMAIN sel |-> format(sel[i])]
    IN  PySlice(questions, start, end)

-----------------------------------------------------------------------------
(* Responses *)

\* The three registered error handlers; any other failure gets the
\* framework's own 500 page, which is not the JSON envelope
abort(code) ==
    IF code = 404 THEN
        [kind |-> "error", status |-> 404, success |-> FALSE, error |-> 404,
         message |-> "resource not found"]
    ELSE IF code = 422 THEN
        [kind |-> "error", status |-> 422, success |-> FALSE, error |-> 422,
         message |-> "unprocessable"]
    ELSE IF code = 400 THEN
        [kind |-> "error", status |-> 400, success |-> FALSE, error |-> 400,
         message |-> "bad request"]
    ELSE
        [kind |-> "html", status |-> code]

\* An exception no handler catches
unhandled == abort(500)

Succeeded(r) == r.kind \notin {"none", "error", "html"}

-----------------------------------------------------------------------------
(* Request inputs *)

NoArgs == [none |-> TRUE]

Pages == (0 - MaxNegPage)..MaxPage

\* Query strings of a list request: no page, ?page=n, ?page=abc
ListArgs == {NoArgs, [page |-> [text |-> "abc"]]} \cup {[page |-> [int |-> n]] : n \in Pages}

\* Query strings tried on the other endpoints
OtherArgs == {NoArgs, [page |-> [int |-> 2]]}

\* Ids tried by delete requests: the first and last seeded rows, the first
\* created row, and an id the sequence never reaches
DeleteIds == {1, SeedTotal, SeedTotal + 1, SeedTotal + MaxCreated + 1}

\* Request bodies: not JSON at all, JSON that is not an object, or an object
Malformed == [json |-> "malformed"]
NotObject == [json |-> "array"]
Object(o) == [json |-> "object", obj |-> o]

\* dict.get(key, None) and `key in dict`
Has(obj, key) == key \in DOMAIN obj
Get(obj, key) == IF Has(obj, key) THEN obj[key] ELSE Null

CreateObjects_First ==
    [question |-> <<"T", "i", "t">>, answer |-> "A3", category |-> 1, difficulty |-> 3]

CreateObjects ==
    {CreateObjects_First,
     [question |-> <<"h", "o", "w">>, answer |-> "A4", category |-> 2, difficulty |-> 5],
     [question |-> <<"h", "o", "w">>, answer |-> "A4", difficulty |-> 5]}

CreateBodies == {Malformed, NotObject} \cup {Object(o) : o \in CreateObjects}

SearchObjects ==
    {[searchTerm |-> <<"t", "I">>], [searchTerm |-> <<"z">>], [other |-> TRUE]}

SearchBodies == {Malformed, NotObject} \cup {Object(o) : o \in SearchObjects}

QuizCategories == {[id |-> c] : c \in {0, 1, 3}} \cup {[type |-> "Science"]}

\* previous_questions tried: the first half of the seeded ids, and every id stored
QuizPrevious(st) ==
    LET rows == All(st)
    IN  {[i \in 1..(SeedTotal \div 2) |-> i], [i \in DOMAIN rows |-> QId(rows[i])]}

QuizObjects(st) ==
    {[quiz_category |-> c, previous_questions |-> p] :
        c \in QuizCategories, p \in QuizPrevious(st)}
    \cup {[quiz_category |-> [id |-> 0]], [previous_questions |-> <<>>]}

QuizBodies(st) == {Malformed, NotObject} \cup {Object(o) : o \in QuizObjects(st)}

-----------------------------------------------------------------------------
(* Question rows: construction, insert, delete *)

\* Question(question=..., answer=..., category=..., difficulty=...)
Question(new_question, new_answer, new_category, new_difficulty) ==
    [question |-> new_question, answer |-> new_answer,
     category |-> new_category, difficulty |-> new_difficulty]

\* question.insert(): the row gets the next value of the id sequence
insert(st, nid, q) == st \cup {<<nid, q.question, q.answer, q.category, q.difficulty>>}

\* question.delete()
delete(st, row) == st \ {row}

\* The None a query returns when no row matches
NoRow == <<>>

\* The lookup matching the wrong row
one_or_none_next(st, question_id) ==
    IF \E r \in st : QId(r) = question_id + 1
    THEN CHOOSE r \in st : QId(r) = question_id + 1
    ELSE NoRow

\* Question.query.filter(Question.id == question_id).one_or_none()
one_or_none(st, question_id) ==
    IF \E r \in st : QId(r) = question_id
    THEN CHOOSE r \in st : QId(r) = question_id
    ELSE NoRow

-----------------------------------------------------------------------------
(* GET /categories *)

get_catgories ==
    /\ request' = [endpoint |-> "categories"]
    /\ LET cats == OrderByType(categories)
       IN  response' =
             IF Len(cats) = 0 THEN abort(404)
             ELSE [kind |-> "categories", status |-> 200, success |-> TRUE,
                   categories |-> [i \in {c[1] : c \in categories} |->
                                     (CHOOSE c \in categories : c[1] = i)[2]]]
    /\ old_store' = store
    /\ UNCHANGED <<store, categories, next_id, deleted, pc, selection,
                   current_questions, session>>

-----------------------------------------------------------------------------
(* GET /questions *)

\* The response built from the page and a second, separate count query
list_response(page_items, st) ==
    IF Len(page_items) = 0 THEN abort(404)
    ELSE [kind |-> "list", status |-> 200, success |-> TRUE,
          questions |-> page_items, total_questions |-> Len(All(st))]

\* The handler run without interruption
get_questions(args) ==
    /\ pc.at = "idle"
    /\ request' = [endpoint |-> "list", args |-> args]
    /\ response' = list_response(paginate_questions(args, OrderById(store)), store)
    /\ old_store' = store
    /\ UNCHANGED <<store, categories, next_id, deleted, pc, selection,
                   current_questions, session>>

\* Its first store read and the pagination
get_questions_read(args) ==
    /\ pc.at = "idle"
    /\ pc' = [at |-> "read", args |-> args]
    /\ selection' = OrderById(store)
    /\ current_questions' = paginate_questions(args, OrderById(store))
    /\ UNCHANGED <<store, categories, next_id, request, response, old_store,
                   deleted, session>>

\* The emptiness check, the count query and the response
get_questions_respond ==
    /\ pc.at = "read"
    /\ request' = [endpoint |-> "list", args |-> pc.args]
    /\ response' = list_response(current_questions, store)
    /\ old_store' = Range(selection)
    /\ pc' = [at |-> "idle"]
    /\ selection' = <<>>
    /\ current_questions' = <<>>
    /\ UNCHANGED <<store, categories, next_id, deleted, session>>

-----------------------------------------------------------------------------
(* DELETE /questions/<int:question_id> *)

\* The broad catch answering "not found" instead
delete_failure_404 == abort(404)

\* except BaseException: abort(422)
delete_failure == abort(422)

delete_question(args, question_id) ==
    /\ request' = [endpoint |-> "delete", args |-> args, question_id |-> question_id]
    /\ old_store' = store
    /\ LET question == one_or_none(store, question_id)
       IN  IF question = NoRow
           THEN \* None.delete() raises inside the try block
                /\ response' = delete_failure
                /\ UNCHANGED <<store, deleted>>
           ELSE /\ Cardinality(deleted) < MaxDeleted
                /\ store' = delete(store, question)
                /\ deleted' = deleted \cup {question_id}
                /\ response' =
                     [kind |-> "delete", status |-> 200, success |-> TRUE,
                      deleted |-> question_id,
                      questions |-> paginate_questions(args, OrderById(store')),
                      total_questions |-> Len(All(store'))]
    /\ UNCHANGED <<categories, next_id, pc, selection, current_questions, session>>

-----------------------------------------------------------------------------
(* POST /questions *)

\* 'question' in body and 'answer' in body and 'difficulty' in body and 'category' in body
has_required_keys(obj) ==
    Has(obj, "question") /\ Has(obj, "answer") /\ Has(obj, "difficulty") /\ Has(obj, "category")

\* The row built with category and difficulty exchanged
new_question_swapped(obj) ==
    Question(Get(obj, "question"), Get(obj, "answer"),
             Get(obj, "difficulty"), Get(obj, "category"))

\* The row built from the body's values
new_question(obj) ==
    Question(Get(obj, "question"), Get(obj, "answer"),
             Get(obj, "category"), Get(obj, "difficulty"))

\* db_ok: whether the store accepts the insert
create_question(args, body, db_ok) ==
    /\ request' = [endpoint |-> "create", args |-> args, body |-> body]
    /\ old_store' = store
    /\ IF body.json = "malformed"
       THEN \* get_json() raises BadRequest
            /\ response' = abort(400)
            /\ UNCHANGED <<store, next_id>>
       ELSE IF body.json # "object"
       THEN \* body.get raises outside the try block
            /\ response' = unhandled
            /\ UNCHANGED <<store, next_id>>
       ELSE IF ~has_required_keys(body.obj)
       THEN /\ response' = abort(422)
            /\ UNCHANGED <<store, next_id>>
       ELSE IF ~db_ok
       THEN \* insert() raises inside the try block
            /\ response' = abort(422)
            /\ UNCHANGED <<store, next_id>>
       ELSE /\ next_id <= SeedTotal + MaxCreated
            /\ store' = insert(store, next_id, new_question(body.obj))
            /\ next_id' = next_id + 1
            /\ response' =
                 [kind |-> "create", status |-> 200, success |-> TRUE,
                  created |-> next_id,
                  questions |-> paginate_questions(args, OrderById(store')),
                  total_questions |-> Len(All(store'))]
    /\ UNCHANGED <<categories, deleted, pc, selection, current_questions, session>>

-----------------------------------------------------------------------------
(* POST /questions/search *)

Lower(c) == IF c = "T" THEN "t" ELSE IF c = "I" THEN "i" ELSE IF c = "N" THEN "n" ELSE c
LowerAll(s) == [i \in DOMAIN s |-> Lower(s[i])]

\* f'%{search_term}%': a missing term is formatted as the text None
Pattern(obj) == IF Has(obj, "searchTerm") THEN obj.searchTerm ELSE <<"N", "o", "n", "e">>

\* Question.question.ilike('%term%')
ilike(text, term) ==
    \E i \in 1..(Len(text) + 1) :
        /\ i + Len(term) - 1 <= Len(text)
        /\ LowerAll(SubSeq(text, i, i + Len(term) - 1)) = LowerAll(term)

search_questions(args, body) ==
    /\ request' = [endpoint |-> "search", args |-> args, body |-> body]
    /\ old_store' = store
    /\ response' =
         IF body.json = "malformed" THEN abort(400)
         ELSE IF body.json # "object" THEN unhandled
         ELSE LET questions == All({r \in store : ilike(QText(r), Pattern(body.obj))})
              IN  IF Len(questions) = 0 THEN abort(404)
                  ELSE [kind |-> "search", status |-> 200, success |-> TRUE,
                        questions |-> paginate_questions(args, questions),
                        total_questions |-> Len(All(store))]
    /\ UNCHANGED <<store, categories, next_id, deleted, pc, selection,
                   current_questions, session>>

-----------------------------------------------------------------------------
(* GET /categories/<int:id>/questions *)

get_questions_by_category(args, id) ==
    /\ request' = [endpoint |-> "by_category", args |-> args, id |-> id]
    /\ old_store' = store
    /\ response' =
         IF ~\E c \in categories : c[1] = id THEN abort(404)
         ELSE LET category == CHOOSE c \in categories : c[1] = id
                  questions == All({r \in store : QCategory(r) = id})
              IN  [kind |-> "by_category", status |-> 200, success |-> TRUE,
                   questions |-> paginate_questions(args, questions),
                   total_questions |-> Len(questions),
                   current_category |-> category[2]]
    /\ UNCHANGED <<store, categories, next_id, deleted, pc, selection,
                   current_questions, session>>

-----------------------------------------------------------------------------
(* POST /quizzes *)

\* The filtered query without the notin_ clause
Candidates_repeat(st, category_id, previous_questions) ==
    {r \in st : category_id = 0 \/ QCategory(r) = category_id}

\* The rows the two filtered queries return
Candidates(st, category_id, previous_questions) ==
    IF category_id = 0
    THEN {r \in st : QId(r) \notin Range(previous_questions)}
    ELSE {r \in st : QCategory(r) = category_id /\ QId(r) \notin Range(previous_questions)}

\* The draw with its emptiness test off by one
next_question_short(questions) ==
    IF Cardinality(questions) > 1 THEN {format(r) : r \in questions} ELSE {Null}

\* questions[random.randrange(0, len(questions))].format() if len(questions) > 0 else None
next_question(questions) ==
    IF Cardinality(questions) > 0 THEN {format(r) : r \in questions} ELSE {Null}

quiz_ok(question) == [kind |-> "quiz", status |-> 200, success |-> TRUE, question |-> question]

\* The handler's effect on request, response and store
quiz_step(body) ==
    /\ request' = [endpoint |-> "quiz", body |-> body]
    /\ old_store' = store
    /\ IF body.json = "malformed" THEN response' = abort(400)
       ELSE IF body.json # "object" THEN response' = unhandled
       ELSE IF ~Has(body.obj, "quiz_category") \/ ~Has(body.obj, "previous_questions")
       THEN response' = abort(400)
       ELSE IF ~Has(body.obj.quiz_category, "id")
       THEN \* quiz_category['id'] raises KeyError
            response' = unhandled
       ELSE \E q \in next_question(Candidates(store, body.obj.quiz_category.id,
                                              body.obj.previous_questions)) :
                response' = quiz_ok(q)
    /\ UNCHANGED <<store, categories, next_id, deleted, pc, selection, current_questions>>

play_quiz(body) ==
    /\ quiz_step(body)
    /\ UNCHANGED session

\* A client playing one quiz: it sends its category and the ids it was
\* served so far, and adds each id it is served
quiz_client ==
    /\ session.status = "playing"
    /\ quiz_step(Object([quiz_category |-> [id |-> session.category],
                         previous_questions |-> session.previous_questions]))
    /\ session' =
         IF response'.question = Null
         THEN [session EXCEPT !.status = "exhausted"]
         ELSE [session EXCEPT !.previous_questions = Append(@, response'.question.id)]

-----------------------------------------------------------------------------
(* Specifications *)

NoSession == [status |-> "none"]

InitRest ==
    /\ request = [endpoint |-> "none"]
    /\ response = [kind |-> "none", status |-> 0]
    /\ old_store = store
    /\ deleted = {}
    /\ pc = [at |-> "idle"]
    /\ selection = <<>>
    /\ current_questions = <<>>

\* The seeded database, possibly after earlier deletes
Init ==
    /\ \E k \in {0, SeedTotal} : store = Seed(k + 1, SeedTotal)
    /\ categories \in {SeedCategories} \cup (IF store = {} THEN {{}} ELSE {})
    /\ next_id = SeedTotal + 1
    /\ session = NoSession
    /\ InitRest

ListQuestions == \E args \in OtherArgs \cup {[page |-> [text |-> "abc"]]} : get_questions(args)
DeleteQuestion == \E args \in OtherArgs, id \in DeleteIds : delete_question(args, id)
CreateQuestion ==
    \E args \in OtherArgs, body \in CreateBodies :
        \E db_ok \in (IF body = Object(CreateObjects_First) THEN BOOLEAN ELSE {TRUE}) :
            create_question(args, body, db_ok)
SearchQuestions == \E args \in OtherArgs, body \in SearchBodies : search_questions(args, body)
QuestionsByCategory == \E args \in OtherArgs, id \in {0, 1, 3} : get_questions_by_category(args, id)
PlayQuiz == \E body \in QuizBodies(store) : play_quiz(body)

\* Requests served one at a time
Next ==
    \/ get_catgories
    \/ ListQuestions
    \/ DeleteQuestion
    \/ CreateQuestion
    \/ SearchQuestions
    \/ QuestionsByCategory
    \/ PlayQuiz

Spec == Init /\ [][Next]_vars

\* Requests of several clients, get_questions being interleaved with the
\* committed creates and deletes of the others between its two store reads
ReadQuestions == \E args \in OtherArgs : get_questions_read(args)
RespondQuestions == get_questions_respond

ConcNext ==
    \/ ReadQuestions
    \/ RespondQuestions
    \/ DeleteQuestion
    \/ CreateQuestion

ConcSpec == Init /\ [][ConcNext]_vars

\* The pagination helper and the list handler over tables of every length
PagInit ==
    /\ \E n \in 0..MaxTotal : store = Seed(1, n) /\ next_id = n + 1
    /\ categories = SeedCategories
    /\ session = NoSession
    /\ InitRest

PaginateQuestions == \E args \in ListArgs : get_questions_read(args)

PagNext ==
    \/ PaginateQuestions
    \/ RespondQuestions

PagSpec == PagInit /\ [][PagNext]_vars

\* One client playing a quiz to its end while other clients delete questions
QuizInit ==
    /\ store \in SUBSET Seed(1, QuizSeed)
    /\ categories = SeedCategories
    /\ next_id = QuizSeed + 1
    /\ \E c \in 0..3, p \in {<<>>, <<1>>} :
         session = [status |-> "playing", category |-> c, previous_questions |-> p,
                    start |-> Cardinality(Candidates(store, c, p)), first |-> p]
    /\ InitRest

QuizDelete == \E id \in 1..QuizSeed : delete_question(NoArgs, id)

QuizNext ==
    \/ quiz_client
    \/ QuizDelete

\* The client keeps asking until it is told the quiz is exhausted
QuizSpec == QuizInit /\ [][QuizNext]_vars /\ WF_vars(quiz_client)

-----------------------------------------------------------------------------
(* Properties *)

IsQuizAnswer ==
    /\ request.endpoint = "quiz"
    /\ response.kind = "quiz"

QuizCategoryId == request.body.obj.quiz_category.id
QuizPreviousIds == Range(request.body.obj.previous_questions)

\* C1: a non-null question of a play-quiz response is a question currently
\* in the store, its id is not in previous_questions, and when
\* quiz_category.id is not 0 its category equals quiz_category.id.
C1_QuizAnswerIsCandidate ==
    (IsQuizAnswer /\ response.question # Null) =>
        \E r \in store :
            /\ format(r) = response.question
            /\ response.question.id \notin QuizPreviousIds
            /\ QuizCategoryId # 0 => response.question.category = QuizCategoryId

C1_Witness ==
    /\ IsQuizAnswer
    /\ response.question # Null
    /\ QuizCategoryId = 1
    /\ QuizPreviousIds = 1..(SeedTotal \div 2)
    /\ Cardinality(store) > SeedTotal \div 2

\* The candidate set of the last request, written from the specification
CandidatesBefore ==
    {r \in old_store :
        /\ QId(r) \notin QuizPreviousIds
        /\ QuizCategoryId = 0 \/ QCategory(r) = QuizCategoryId}

NoRepeat(s) == \A i, j \in DOMAIN s : i # j => s[i] # s[j]

C2_Safe ==
    /\ NoRepeat(session.previous_questions)
    /\ Len(session.previous_questions) - Len(session.first) <= session.start
    /\ IsQuizAnswer => (response.question = Null <=> CandidatesBefore = {})
    /\ session.status = "exhausted" =>
          Candidates(store, session.category, session.previous_questions) = {}

\* C2: a client that keeps calling play quiz with a fixed category, adding
\* each returned id to previous_questions, while no question is created, is
\* never served the same id twice, gets at most as many non-null answers as
\* there were candidates at the start, gets a null question (as a success)
\* exactly when the candidate set is empty, and eventually gets it.
C2_QuizExhausts == [](C2_Safe) /\ <>(session.status = "exhausted")

C2_Witness ==
    /\ session.status = "exhausted"
    /\ Len(session.previous_questions) = QuizSeed
    /\ response.kind = "quiz"
    /\ response.question = Null

\* C3: for every page >= 1 the pagination helper returns exactly
\* min(10, max(0, total - (page-1)*10)) items, never more than 10: the items
\* at 0-based positions (page-1)*10 .. (page-1)*10+9, in their order.
C3_PageSlice ==
    (pc.at = "read" /\ PageArg(pc.args) >= 1) =>
        LET page == PageArg(pc.args)
            total == Len(selection)
            n == Min(10, Max(0, total - (page - 1) * 10))
        IN  /\ Len(current_questions) = n
            /\ Len(current_questions) <= 10
            /\ \A i \in 1..n : current_questions[i] = format(selection[(page - 1) * 10 + i])

C3_Witness ==
    /\ pc.at = "read"
    /\ PageArg(pc.args) = 2
    /\ Len(selection) = 13
    /\ Len(current_questions) = 3

\* The record a create request submits, as a listing shows it
Submitted ==
    [id |-> response.created,
     question |-> request.body.obj.question, answer |-> request.body.obj.answer,
     category |-> request.body.obj.category, difficulty |-> request.body.obj.difficulty]

\* The pages a client gets by listing page 1, 2, ... of the current store
Listing(p) == list_response(paginate_questions([page |-> [int |-> p]], OrderById(store)), store)

\* C4: after a successful create the store holds exactly one question more,
\* the created id is one no stored question had, every earlier question is
\* unchanged, and a listing shows a record with that id and the submitted
\* question, answer, category and difficulty.
C4_CreateRoundTrip ==
    response.kind = "create" =>
        /\ Cardinality(store) = Cardinality(old_store) + 1
        /\ response.total_questions = Cardinality(old_store) + 1
        /\ response.created \notin Ids(old_store)
        /\ old_store \subseteq store
        /\ \E p \in 1..MaxPage :
              /\ Succeeded(Listing(p))
              /\ Listing(p).total_questions = Cardinality(old_store) + 1
              /\ \E i \in DOMAIN Listing(p).questions : Listing(p).questions[i] = Submitted

C4_Witness ==
    /\ response.kind = "create"
    /\ Cardinality(store) = QUESTIONS_PER_PAGE + 1
    /\ \E i \in DOMAIN Listing(2).questions : Listing(2).questions[i] = Submitted

\* The question ids a response shows
ResponseIds ==
    IF response.kind \in {"list", "delete", "create", "search", "by_category"}
    THEN {response.questions[i].id : i \in DOMAIN response.questions}
         \cup (IF response.kind = "create" THEN {response.created} ELSE {})
    ELSE IF response.kind = "quiz" /\ response.question # Null
    THEN {response.question.id}
    ELSE {}

\* C5: a successful delete of id d leaves exactly one question less and the
\* others unchanged, and afterwards no response of any request shows a
\* question with id d again: later creates do not reuse the id.
C5_DeletedStaysGone ==
    /\ response.kind = "delete" =>
          /\ Cardinality(store) = Cardinality(old_store) - 1
          /\ response.total_questions = Cardinality(old_store) - 1
          /\ store = {r \in old_store : QId(r) # response.deleted}
    /\ ResponseIds \cap deleted = {}
    /\ Ids(store) \cap deleted = {}

C5_Witness ==
    /\ deleted = {SeedTotal + 1}
    /\ response.kind = "create"
    /\ response.created = SeedTotal + 2
    /\ Cardinality(store) = SeedTotal + 1

\* Page 1 of a store: its first 10 questions by ascending id
FirstPage(st) ==
    LET s == OrderById(st)
    IN  [i \in 1..Min(10, Len(s)) |-> format(s[i])]

\* C6: the questions of a successful delete response are page 1 of the
\* remaining questions and those of a successful create response page 1 of
\* all questions, whatever the page parameter; total_questions is the count
\* after the change.
C6_FirstPageAfterChange ==
    response.kind \in {"delete", "create"} =>
        /\ response.questions = FirstPage(store)
        /\ response.total_questions = Cardinality(store)

Envelopes ==
    {<<400, "bad request">>, <<422, "unprocessable">>, <<404, "resource not found">>}

\* C7: every request ends in a success response or in the error envelope
\* {success: false, error, message} for 400, 422 or 404; nothing else.
C7_SuccessOrEnvelope ==
    request.endpoint # "none" =>
        \/ Succeeded(response) /\ response.success
        \/ /\ response.kind = "error"
           /\ ~response.success
           /\ <<response.error, response.message>> \in Envelopes

IsUnprocessable(r) ==
    r.kind = "error" /\ r.status = 422 /\ r.error = 422 /\ r.message = "unprocessable"

C8_Step ==
    /\ (/\ request'.endpoint = "create"
        /\ request'.body.json = "object"
        /\ ~({"question", "answer", "category", "difficulty"} \subseteq DOMAIN request'.body.obj))
          => IsUnprocessable(response')
    /\ (request'.endpoint = "delete" /\ request'.question_id \notin Ids(store))
          => IsUnprocessable(response')
    /\ (response'.kind = "error" /\ response'.error \in {400, 404, 422})
          => (store' = store /\ categories' = categories /\ next_id' = next_id)

\* C8: a create request whose body lacks one of the four keys and a delete
\* request for an id not in the store each answer 422 "unprocessable", and a
\* request answered with 400, 404 or 422 leaves questions and categories as
\* they were.
C8_ErrorsChangeNothing == [][C8_Step]_vars

C8_Witness ==
    /\ request.endpoint = "delete"
    /\ request.question_id \notin Ids(old_store)
    /\ IsUnprocessable(response)
    /\ store = old_store
    /\ deleted # {}

\* C9: for every integer page, every item the helper returns sits at a
\* 0-based position p with (page-1)*10 <= p < (page-1)*10+10, so a page
\* below 1 gives an empty slice and list-questions answers 404 for it.
C9_PageWindow ==
    /\ pc.at = "read" =>
          LET page == PageArg(pc.args)
          IN  /\ \A i \in DOMAIN current_questions :
                    \E p \in ((page - 1) * 10)..((page - 1) * 10 + 9) :
                        /\ p >= 0
                        /\ p < Len(selection)
                        /\ current_questions[i] = format(selection[p + 1])
              /\ page < 1 => current_questions = <<>>
    /\ (request.endpoint = "list" /\ PageArg(request.args) < 1) => response = abort(404)

\* C10: in a successful list response total_questions counts the store state
\* the page was read from, so the page is no longer than total_questions,
\* also when creates and deletes of other clients interleave.
C10_TotalMatchesPage ==
    (request.endpoint = "list" /\ Succeeded(response)) =>
        /\ response.total_questions = Cardinality(old_store)
        /\ Len(response.questions) <= response.total_questions

====
